---- MODULE Spec2Model ----
(***************************************************************************)
(* Model of v6_average_py: the federated average of one column.            *)
(*                                                                         *)
(*   partial_average  runs at a node on the node's dataframe and returns   *)
(*                    {"sum": float, "count": int};                        *)
(*   central_average  resolves the organizations, creates one task for     *)
(*                    them, waits for the task's results and folds them    *)
(*                    into {"average": global_sum / global_count}.         *)
(*                                                                         *)
(* Numbers.  Column entries are non-negative integers or NaN.  A Python    *)
(* float is modelled as a binary floating-point number whose significand   *)
(* has Precision bits (IEEE-754 binary64 has 53; the model scales the      *)
(* width down, rounding is round-half-to-even as in binary64).  A float    *)
(* is represented by the integer it equals.  An optional value (Python     *)
(* None / not yet assigned / nothing returned) is a sequence of length 0,  *)
(* a present value a sequence of length 1.                                 *)
(***************************************************************************)
EXTENDS Integers, Sequences, FiniteSets

(* ------------------------------ bounds -------------------------------- *)
\* organizations known to the server are 1..NumOrgs
NumOrgs == 3
\* longest explicit org_ids list the caller passes
MaxListLen == 2
\* most rows of a dataframe in the partial_average specification
MaxRows == 2
\* significand width of the modelled float (53 in binary64)
Precision == 3

(* ------------------------------ values -------------------------------- *)
OrgIds == 1..NumOrgs
ColumnNames == {"age", "bmi"}
NaN == [isna |-> TRUE, val |-> 0]
Num(v) == [isna |-> FALSE, val |-> v]
Cells == {NaN} \cup {Num(v) : v \in {1, 4, 8}}
SeqsUpTo(S, n) == UNION {[1..k -> S] : k \in 0..n}
\* a dataframe: column name -> column; "age" is always there, "bmi" may be missing
Dataframes == UNION {[cs -> SeqsUpTo(Cells, MaxRows)] : cs \in {{"age"}, {"age", "bmi"}}}
\* the dataframes the nodes hold in the central_average specification
SiteDatasets ==
  {[age |-> col] : col \in {<<>>, <<Num(1)>>, <<NaN, Num(1)>>, <<Num(4), Num(4)>>}}

(* ------------------------- float arithmetic --------------------------- *)
RECURSIVE Pow2(_)
Pow2(n) == IF n = 0 THEN 1 ELSE 2 * Pow2(n - 1)

RECURSIVE ScaleOf(_, _)
\* the power of two s with n \div s below 2^Precision: the unit in the last place
ScaleOf(n, s) == IF n \div s < Pow2(Precision) THEN s ELSE ScaleOf(n, 2 * s)

\* the float nearest to the integer n >= 0, ties to the even significand
RoundToFloat(n) ==
  LET s == ScaleOf(n, 1)
      q == n \div s
      r == n % s
  IN IF 2 * r > s \/ (2 * r = s /\ q % 2 = 1) THEN (q + 1) * s ELSE q * s

\* float + float, and int 0 + float (line 66)
FloatAdd(a, b) == RoundToFloat(a + b)

RECURSIVE GCD(_, _)
GCD(a, b) == IF b = 0 THEN a ELSE GCD(b, a % b)

\* a / b for b # 0: the quotient, as a fraction in lowest terms <<num, den>>
TrueDiv(a, b) == LET g == GCD(a, b) IN <<a \div g, b \div g>>

(* --------------------------- partial_average -------------------------- *)
\* df[column_name]: present when the column exists, otherwise a KeyError
HasColumn(d, c) == c \in DOMAIN d

\* faulty variant of DropNa: the result of dropna() is thrown away
DropNaDiscarded(col) == col

\* Series.dropna(): the entries that are not missing, in order
DropNa(col) == SelectSeq(col, LAMBDA x : ~x.isna)

RECURSIVE SeriesSum(_)
\* Series.sum(): missing entries are skipped, the empty sum is 0
SeriesSum(col) ==
  IF col = <<>> THEN 0
  ELSE (IF Head(col).isna THEN 0 ELSE Head(col).val) + SeriesSum(Tail(col))

\* lines 84-86: the series the partials are computed from
Selected(col, drop) == IF drop THEN DropNa(col) ELSE col

\* faulty variant of LocalSum: the first row is left out of the sum
LocalSumSkipsFirst(numbers0) ==
  RoundToFloat(SeriesSum(IF numbers0 = <<>> THEN <<>> ELSE Tail(numbers0)))

\* line 90
LocalSum(numbers0) == RoundToFloat(SeriesSum(numbers0))

\* faulty variant of LocalCount: Series.count(), which counts non-missing entries
LocalCountNonMissing(numbers0) == Len(SelectSeq(numbers0, LAMBDA x : ~x.isna))

\* line 91
LocalCount(numbers0) == Len(numbers0)

\* the whole function: <<>> when it raises, <<[sum, count]>> when it returns
partial_average(d, c, drop) ==
  IF ~HasColumn(d, c) THEN <<>>
  ELSE LET n == Selected(d[c], drop)
       IN <<[sum |-> LocalSum(n), count |-> LocalCount(n)]>>

VARIABLES
  \* partial_average, one run
  ppc, df, numbers, local_sum, local_count, pret, perror,
  \* parameters (of whichever function runs)
  column_name, drop_na,
  \* central_average
  pc, org_ids_arg, org_ids, task, waited, results, it, global_sum, global_count, ret,
  error,
  \* the platform: the collaboration's organizations, the server's tasks,
  \* the calls made to client.task.create
  directory, tasks, created

pvars == <<ppc, df, numbers, local_sum, local_count, pret, perror>>
cvars ==
  <<pc, org_ids_arg, org_ids, task, waited, results, it, global_sum, global_count, ret,
    error>>
envvars == <<directory, tasks, created>>
vars == <<pvars, column_name, drop_na, cvars, envvars>>

\* the central function is not running
CentralIdle ==
  /\ pc = "idle" /\ org_ids_arg = [is_none |-> TRUE, items |-> <<>>]
  /\ org_ids = <<>> /\ task = <<>> /\ waited = <<>> /\ results = <<>> /\ it = 0
  /\ global_sum = <<>> /\ global_count = <<>> /\ ret = <<>> /\ error = ""
  /\ directory = <<>> /\ tasks = <<>> /\ created = <<>>

\* no partial_average runs in this process
PartialIdle ==
  /\ ppc = "idle" /\ df = [c \in {} |-> <<>>] /\ numbers = <<>>
  /\ local_sum = <<>> /\ local_count = <<>> /\ pret = <<>> /\ perror = ""

(* ------------------- partial_average, step by step -------------------- *)
InitPartial ==
  /\ CentralIdle
  /\ ppc = "extract"
  /\ df \in Dataframes
  /\ column_name \in ColumnNames
  /\ drop_na \in BOOLEAN
  /\ numbers = <<>> /\ local_sum = <<>> /\ local_count = <<>>
  /\ pret = <<>> /\ perror = ""

\* faulty variant of Extract: a missing column is read as an empty one
ExtractOrEmpty ==
  /\ ppc = "extract"
  /\ numbers' = IF HasColumn(df, column_name) THEN df[column_name] ELSE <<>>
  /\ ppc' = "dropna"
  /\ UNCHANGED <<df, local_sum, local_count, pret, perror, column_name, drop_na, cvars,
                 envvars>>

\* line 81: numbers = df[column_name]
Extract ==
  /\ ppc = "extract"
  /\ IF HasColumn(df, column_name)
     THEN /\ numbers' = df[column_name]
          /\ ppc' = "dropna"
          /\ perror' = perror
     ELSE /\ perror' = "KeyError"
          /\ ppc' = "failed"
          /\ numbers' = numbers
  /\ UNCHANGED <<df, local_sum, local_count, pret, column_name, drop_na, cvars, envvars>>

\* lines 84-86: if drop_na: numbers = numbers.dropna()
DropMissing ==
  /\ ppc = "dropna"
  /\ numbers' = Selected(numbers, drop_na)
  /\ ppc' = "compute"
  /\ UNCHANGED <<df, local_sum, local_count, pret, perror, column_name, drop_na, cvars, envvars>>

\* lines 90-91
ComputePartials ==
  /\ ppc = "compute"
  /\ local_sum' = <<LocalSum(numbers)>>
  /\ local_count' = <<LocalCount(numbers)>>
  /\ ppc' = "return"
  /\ UNCHANGED <<df, numbers, pret, perror, column_name, drop_na, cvars, envvars>>

\* lines 94-97
ReturnPartial ==
  /\ ppc = "return"
  /\ pret' = <<[sum |-> local_sum[1], count |-> local_count[1]]>>
  /\ ppc' = "done"
  /\ UNCHANGED <<df, numbers, local_sum, local_count, perror, column_name, drop_na, cvars, envvars>>

NextPartial == Extract \/ DropMissing \/ ComputePartials \/ ReturnPartial

SpecPartial == InitPartial /\ [][NextPartial]_vars

(* --------------------------- the platform ----------------------------- *)
\* the org_ids argument: None, or a list
NoneArg == [is_none |-> TRUE, items |-> <<>>]
ListArg(s) == [is_none |-> FALSE, items |-> s]
Injective(f) == \A i, j \in DOMAIN f : f[i] = f[j] => i = j
ExplicitLists == {s \in SeqsUpTo(OrgIds, MaxListLen) : Injective(s)}
Perms(n) == {f \in [1..n -> 1..n] : Injective(f)}

\* client.organization.list(): the collaboration's organizations
Directories == {[i \in 1..k |-> [id |-> i]] : k \in 0..NumOrgs}
Members(dir) == {dir[i].id : i \in DOMAIN dir}

\* a task another user of the server created earlier; it has finished
ForeignTask ==
  [input |-> [method |-> "partial_average",
              kwargs |-> [column_name |-> "age", drop_na |-> FALSE]],
   organizations |-> <<1>>,
   runs |-> <<[status |-> "completed", result |-> <<[sum |-> 4, count |-> 1]>>]>>]

\* the task the server stores for a request: one pending run per organization
NewTask(req) ==
  [input |-> req.input,
   organizations |-> req.organizations,
   runs |-> [i \in DOMAIN req.organizations |-> [status |-> "pending", result |-> <<>>]]]

(* --------------------------- central_average -------------------------- *)
\* `not org_ids`: None and the empty list are both falsy
Falsy(arg) == arg.is_none \/ arg.items = <<>>

\* faulty variant of ResolveOrgIds: an explicit list is cut down to the
\* organizations the directory lookup returns
ResolveMembersOnly(arg, dir) ==
  IF Falsy(arg) THEN [i \in DOMAIN dir |-> dir[i].id]
  ELSE SelectSeq(arg.items, LAMBDA o : o \in Members(dir))

\* lines 26-35: the organizations the task will be addressed to
ResolveOrgIds(arg, dir) ==
  IF Falsy(arg) THEN [i \in DOMAIN dir |-> dir[i].id] ELSE arg.items

\* faulty variant of TaskRequests: one create call per organization
TaskRequestsPerOrg(orgs, c, drop) ==
  IF orgs = <<>>
  THEN <<[input |-> [method |-> "partial_average",
                     kwargs |-> [column_name |-> c, drop_na |-> drop]],
          organizations |-> orgs]>>
  ELSE [k \in DOMAIN orgs |->
          [input |-> [method |-> "partial_average",
                      kwargs |-> [column_name |-> c, drop_na |-> drop]],
           organizations |-> <<orgs[k]>>]]

\* lines 42-51: the calls to client.task.create, in order
TaskRequests(orgs, c, drop) ==
  <<[input |-> [method |-> "partial_average",
                kwargs |-> [column_name |-> c, drop_na |-> drop]],
     organizations |-> orgs]>>

\* faulty variant of WaitTaskId: the wait is issued for the server's first task
WaitFirstTask(t) == 1

\* line 58: the identifier handed to client.wait_for_results
WaitTaskId(t) == t.id

\* faulty variant of AddSum: the sum is overwritten, not accumulated
AddSumOverwrites(gs, output) == RoundToFloat(output.sum)

\* line 66
AddSum(gs, output) == FloatAdd(gs, output.sum)

\* faulty variant of AddCount: the count is overwritten, not accumulated
AddCountOverwrites(gc, output) == output.count

\* line 67
AddCount(gc, output) == gc + output.count

\* faulty variant of Quotient: an empty aggregate yields the default 0
QuotientOrZero(gs, gc) == IF gc = 0 THEN <<<<0, 1>>>> ELSE <<TrueDiv(gs, gc)>>

\* line 69: global_sum / global_count; <<>> when the division raises
Quotient(gs, gc) == IF gc = 0 THEN <<>> ELSE <<TrueDiv(gs, gc)>>

Init ==
  /\ PartialIdle
  /\ column_name \in ColumnNames
  /\ drop_na \in BOOLEAN
  /\ org_ids_arg \in {NoneArg} \cup {ListArg(s) : s \in ExplicitLists}
  /\ directory \in Directories
  /\ tasks = <<ForeignTask>>
  /\ created = <<>>
  /\ pc = "resolve"
  /\ org_ids = <<>> /\ task = <<>> /\ waited = <<>> /\ results = <<>> /\ it = 0
  /\ global_sum = <<>> /\ global_count = <<>> /\ ret = <<>> /\ error = ""

\* lines 26-35
CollectOrganizations ==
  /\ pc = "resolve"
  /\ org_ids' = ResolveOrgIds(org_ids_arg, directory)
  /\ pc' = "create"
  /\ UNCHANGED <<pvars, column_name, drop_na, org_ids_arg, task, waited, results, it,
                 global_sum, global_count, ret, error, envvars>>

\* the server's bookkeeping for a sequence of create calls: the k-th call
\* stores a task under the next free identifier
Stored(reqs) == [k \in DOMAIN reqs |-> NewTask(reqs[k])]
Logged(reqs) == [k \in DOMAIN reqs |-> [request |-> reqs[k], id |-> Len(tasks) + k]]

\* lines 42-51: the server accepts the task
CreateTask ==
  /\ pc = "create"
  /\ LET reqs == TaskRequests(org_ids, column_name, drop_na)
     IN /\ tasks' = tasks \o Stored(reqs)
        /\ created' = created \o Logged(reqs)
        /\ task' = <<[id |-> Len(tasks) + Len(reqs)]>>
  /\ pc' = "wait"
  /\ UNCHANGED <<pvars, column_name, drop_na, org_ids_arg, org_ids, waited, results, it,
                 global_sum, global_count, ret, error, directory>>

\* lines 42-51: the server refuses a task addressed to an organization that
\* is not in the collaboration; the exception leaves central_average
CreateTaskRefused ==
  /\ pc = "create"
  /\ \E i \in DOMAIN org_ids : org_ids[i] \notin Members(directory)
  /\ created' = created \o
       [k \in DOMAIN TaskRequests(org_ids, column_name, drop_na) |->
          [request |-> TaskRequests(org_ids, column_name, drop_na)[k], id |-> 0]]
  /\ pc' = "failed"
  /\ error' = "TaskError"
  /\ UNCHANGED <<pvars, column_name, drop_na, org_ids_arg, org_ids, task, waited, results,
                 it, global_sum, global_count, ret, directory, tasks>>

\* a node of the collaboration picks up its run of a task and executes
\* partial_average on its own dataframe with the task's kwargs
NodeRun(t, i) ==
  /\ tasks[t].runs[i].status = "pending"
  /\ tasks[t].organizations[i] \in Members(directory)
  /\ tasks[t].input.method = "partial_average"
  /\ \E d \in SiteDatasets :
       LET kw == tasks[t].input.kwargs
           out == partial_average(d, kw.column_name, kw.drop_na)
           run == IF out = <<>> THEN [status |-> "failed", result |-> <<>>]
                  ELSE [status |-> "completed", result |-> out]
       IN tasks' = [tasks EXCEPT ![t].runs[i] = run]
  /\ UNCHANGED <<pvars, column_name, drop_na, cvars, directory, created>>

\* lines 58-64: wait_for_results returns once every run of the task has a
\* result, in an order of the platform's choosing
WaitForResults ==
  /\ pc = "wait"
  /\ LET tid == WaitTaskId(task[1])
         runs == tasks[tid].runs
     IN /\ \A i \in DOMAIN runs : runs[i].status = "completed"
        /\ waited' = <<tid>>
        /\ \E p \in Perms(Len(runs)) :
             results' = [k \in DOMAIN runs |-> runs[p[k]].result[1]]
  /\ global_sum' = <<0>>
  /\ global_count' = <<0>>
  /\ it' = 1
  /\ pc' = "reduce"
  /\ UNCHANGED <<pvars, column_name, drop_na, org_ids_arg, org_ids, task, ret, error,
                 envvars>>

\* line 58: a run of the task failed and the platform reports it to the
\* waiting caller as an exception, which leaves central_average
WaitRaises ==
  /\ pc = "wait"
  /\ LET tid == WaitTaskId(task[1])
         runs == tasks[tid].runs
     IN /\ \E i \in DOMAIN runs : runs[i].status = "failed"
        /\ waited' = <<tid>>
  /\ pc' = "failed"
  /\ error' = "TaskError"
  /\ UNCHANGED <<pvars, column_name, drop_na, org_ids_arg, org_ids, task, results, it,
                 global_sum, global_count, ret, envvars>>

\* lines 65-67: one iteration of the loop
Accumulate ==
  /\ pc = "reduce"
  /\ it <= Len(results)
  /\ global_sum' = <<AddSum(global_sum[1], results[it])>>
  /\ global_count' = <<AddCount(global_count[1], results[it])>>
  /\ it' = it + 1
  /\ UNCHANGED <<pvars, column_name, drop_na, pc, org_ids_arg, org_ids, task, waited,
                 results, ret, error, envvars>>

\* line 69: the loop is over
Return ==
  /\ pc = "reduce"
  /\ it > Len(results)
  /\ LET q == Quotient(global_sum[1], global_count[1])
     IN IF q = <<>>
        THEN /\ pc' = "failed"
             /\ error' = "ZeroDivisionError"
             /\ ret' = ret
        ELSE /\ pc' = "done"
             /\ ret' = <<[average |-> q[1]]>>
             /\ error' = error
  /\ UNCHANGED <<pvars, column_name, drop_na, org_ids_arg, org_ids, task, waited, results,
                 it, global_sum, global_count, envvars>>

Next ==
  \/ CollectOrganizations
  \/ CreateTask
  \/ CreateTaskRefused
  \/ \E t \in DOMAIN tasks : \E i \in DOMAIN tasks[t].runs : NodeRun(t, i)
  \/ WaitForResults
  \/ WaitRaises
  \/ Accumulate
  \/ Return

Spec == Init /\ [][Next]_vars

(* ======================= properties: partial_average =================== *)
\* the column the run was asked for (defined when it exists)
AskedColumn == df[column_name]
Missing(col) == {i \in DOMAIN col : col[i].isna}

RECURSIVE PlainSum(_)
\* the arithmetic sum of the entries of a column without missing entries
PlainSum(col) == IF col = <<>> THEN 0 ELSE PlainSum(Tail(col)) + Head(col).val

RECURSIVE NonMissing(_)
\* the column with its missing entries physically removed
NonMissing(col) ==
  IF col = <<>> THEN <<>>
  ELSE IF Head(col).isna THEN NonMissing(Tail(col))
  ELSE <<Head(col)>> \o NonMissing(Tail(col))

\* C7: on a column without missing values and with drop_na = False,
\* partial_average returns the sum of all entries (as a float: the float
\* nearest to it, the sum itself whenever it is representable) and the
\* number of entries; an empty column yields sum 0 and count 0, no error.
C7_SumAndCount ==
  (ppc = "done" /\ ~drop_na /\ Missing(AskedColumn) = {}) =>
     /\ pret = <<[sum |-> RoundToFloat(PlainSum(AskedColumn)), count |-> Len(AskedColumn)]>>
     /\ (PlainSum(AskedColumn) <= Pow2(Precision) => pret[1].sum = PlainSum(AskedColumn))
     /\ (AskedColumn = <<>> => pret = <<[sum |-> 0, count |-> 0]>> /\ perror = "")

C7_Witness ==
  /\ ppc = "done" /\ ~drop_na
  /\ AskedColumn = <<Num(4), Num(1)>>
  /\ pret = <<[sum |-> 5, count |-> 2]>>

\* C8: partial_average with drop_na = True returns the same sum and count
\* as partial_average with drop_na = False on the dataframe from which the
\* missing entries of the column have been removed.
C8_DropEqualsRemoved ==
  (ppc = "done" /\ drop_na) =>
     pret = partial_average([df EXCEPT ![column_name] = NonMissing(AskedColumn)],
                            column_name, FALSE)

C8_Witness ==
  /\ ppc = "done" /\ drop_na
  /\ AskedColumn = <<Num(4), NaN>>
  /\ pret = <<[sum |-> 4, count |-> 1]>>

\* C9: when column_name names no column of the dataframe, partial_average
\* ends in a KeyError before a sum or a count is computed and returns
\* nothing; a failure is never followed by a return value.
C9_MissingColumnFails ==
  /\ (~HasColumn(df, column_name) /\ ppc # "extract") =>
        /\ ppc = "failed" /\ perror = "KeyError"
        /\ local_sum = <<>> /\ local_count = <<>> /\ pret = <<>>
  /\ (perror # "" => ppc = "failed" /\ pret = <<>>)
  /\ (pret # <<>> => perror = "" /\ HasColumn(df, column_name))

C9_Witness ==
  /\ ppc = "failed" /\ perror = "KeyError"
  /\ column_name = "bmi" /\ DOMAIN df = {"age"} /\ df["age"] # <<>>

\* C10: with drop_na = False the count is the number of rows of the
\* column, missing ones included: k more than the count with drop_na =
\* True when k entries are missing; the count does not depend on the sum.
C10_CountIncludesMissing ==
  ppc = "done" =>
     LET k == Cardinality(Missing(AskedColumn))
     IN /\ ~drop_na =>
             /\ pret[1].count = Len(AskedColumn)
             /\ pret[1].count = partial_average(df, column_name, TRUE)[1].count + k
        /\ drop_na =>
             /\ pret[1].count + k = Len(AskedColumn)
             /\ pret[1].count + k = partial_average(df, column_name, FALSE)[1].count

C10_Witness ==
  /\ ppc = "done" /\ ~drop_na
  /\ Cardinality(Missing(AskedColumn)) = 1
  /\ pret[1].count = 2

(* ======================= properties: central_average =================== *)
\* the reduction ran to its end: a result was returned or the division raised
Reduced == pc = "done" \/ (pc = "failed" /\ error = "ZeroDivisionError")

RECURSIVE FoldSum(_)
\* the floating-point sum of the partial sums, added left to right from 0
FoldSum(rs) ==
  IF rs = <<>> THEN 0
  ELSE RoundToFloat(FoldSum(SubSeq(rs, 1, Len(rs) - 1)) + rs[Len(rs)].sum)

RECURSIVE TotalSum(_)
\* the arithmetic sum of the partial sums
TotalSum(rs) == IF rs = <<>> THEN 0 ELSE rs[1].sum + TotalSum(Tail(rs))

RECURSIVE TotalCount(_)
\* the arithmetic sum of the partial counts
TotalCount(rs) == IF rs = <<>> THEN 0 ELSE rs[1].count + TotalCount(Tail(rs))

\* no addition of the partial sums rounds, in whatever order they are added
ExactlySummable(rs) == TotalSum(rs) <= Pow2(Precision)

Reordered(rs, p) == [k \in DOMAIN rs |-> rs[p[k]]]
DirectoryIds == [i \in DOMAIN directory |-> directory[i].id]

\* C1: when the partial counts returned by the wait sum to a nonzero
\* value, central_average returns {"average": A} with A the sum of the
\* partial sums (the float sum, equal to the arithmetic sum whenever no
\* addition rounds) divided by the sum of the partial counts.
C1_AverageIsSumOverCount ==
  (Reduced /\ TotalCount(results) # 0) =>
     /\ pc = "done"
     /\ ret = <<[average |-> TrueDiv(FoldSum(results), TotalCount(results))]>>
     /\ (ExactlySummable(results) =>
           ret[1].average = TrueDiv(TotalSum(results), TotalCount(results)))

C1_Witness ==
  /\ pc = "done"
  /\ results = <<[sum |-> 1, count |-> 1], [sum |-> 1, count |-> 2]>>
  /\ ret = <<[average |-> <<2, 3>>]>>

\* C2: when the collected partial counts sum to zero (all sites report
\* count 0, or there are no results at all), central_average ends in a
\* ZeroDivisionError and returns nothing: no default, no recovery.
C2_ZeroCountFails ==
  /\ (Reduced /\ TotalCount(results) = 0) =>
        pc = "failed" /\ error = "ZeroDivisionError" /\ ret = <<>>
  /\ (error # "" => pc = "failed" /\ ret = <<>>)

C2_Witness ==
  /\ pc = "failed" /\ error = "ZeroDivisionError"
  /\ results = <<[sum |-> 0, count |-> 0]>>

\* C3 as stated: any explicit list, whatever its length, is the list the task
\* is addressed to; only an absent list is resolved through the directory.
C3_AnyListVerbatim ==
  created # <<>> =>
     created[1].request.organizations =
       IF org_ids_arg.is_none THEN DirectoryIds ELSE org_ids_arg.items

\* C3, amended: an absent or EMPTY org_ids list is resolved to the ids of
\* every organization of the directory; an explicit non-empty list is the
\* list the task is addressed to, unchanged, members or not.
C3_NonEmptyListVerbatim ==
  created # <<>> =>
     created[1].request.organizations =
       IF org_ids_arg.is_none \/ org_ids_arg.items = <<>>
       THEN DirectoryIds ELSE org_ids_arg.items

C3_Witness ==
  /\ pc = "wait"
  /\ org_ids_arg = ListArg(<<3, 1>>)
  /\ Len(directory) = 1
  /\ created[1].request.organizations = <<3, 1>>

\* C4: task creation is called exactly once per invocation, for the whole
\* resolved organization list, naming "partial_average" and carrying the
\* column_name and drop_na that central_average received.
C4_SingleDispatch ==
  /\ Len(created) <= 1
  /\ pc \in {"wait", "reduce", "done", "failed"} =>
        /\ Len(created) = 1
        /\ created[1].request =
             [input |-> [method |-> "partial_average",
                         kwargs |-> [column_name |-> column_name, drop_na |-> drop_na]],
              organizations |-> org_ids]

C4_Witness ==
  /\ pc = "done" /\ drop_na
  /\ Len(org_ids) = 3
  /\ Len(created) = 1

\* C5: the reduction starts, and a result is returned, only after the wait
\* for the created task has returned: the wait was issued for the id of
\* the task created, every targeted organization's run has completed, and
\* the results reduced are exactly those runs' results, none missing.
C5_ReduceAfterWait ==
  (pc \in {"reduce", "done"} \/ Reduced \/ global_sum # <<>> \/ ret # <<>>) =>
     /\ Len(created) = 1
     /\ waited = <<created[1].id>>
     /\ task = <<[id |-> created[1].id]>>
     /\ LET runs == tasks[created[1].id].runs
        IN /\ tasks[created[1].id].organizations = org_ids
           /\ \A i \in DOMAIN runs : runs[i].status = "completed"
           /\ Len(results) = Len(org_ids)
           /\ \E p \in Perms(Len(runs)) :
                results = [k \in DOMAIN runs |-> runs[p[k]].result[1]]

C5_Witness ==
  /\ pc = "reduce" /\ it = 1
  /\ Len(results) = 3
  /\ waited = <<2>>

\* the outcome of reducing rs in the order given: <<>> is the failure
OutcomeOf(rs) ==
  IF TotalCount(rs) = 0 THEN <<>> ELSE <<TrueDiv(FoldSum(rs), TotalCount(rs))>>
Outcome == IF pc = "done" THEN <<ret[1].average>> ELSE <<>>

\* C6 as stated: whatever the order in which the results are delivered, the
\* outcome (the average, or the failure) is the same.
C6_OrderIndependent ==
  Reduced => \A p \in Perms(Len(results)) : OutcomeOf(Reordered(results, p)) = Outcome

\* C6, amended: the failure on a zero count does not depend on the order;
\* the average does not depend on it provided no addition of the partial
\* sums rounds (the partial sums are exactly summable as floats).
C6_OrderIndependentWhenExact ==
  Reduced =>
     \A p \in Perms(Len(results)) :
        /\ (OutcomeOf(Reordered(results, p)) = <<>>) <=> (pc = "failed")
        /\ ExactlySummable(results) => OutcomeOf(Reordered(results, p)) = Outcome

C6_Witness ==
  /\ pc = "done"
  /\ results = <<[sum |-> 1, count |-> 2], [sum |-> 0, count |-> 0], [sum |-> 1, count |-> 1]>>
  /\ ret = <<[average |-> <<2, 3>>]>>
====
